---- MODULE Spec2Model ----
(***************************************************************************)
(* Model of the slide navigator of src/app.js (class                       *)
(* PresentationController and the page-level keydown listener).            *)
(*                                                                         *)
(* The controller object, the DOM properties it writes and the timers it   *)
(* schedules are the state.  Every method is an operator from a controller *)
(* record to a controller record, translated statement by statement; every *)
(* event handler and every timer callback is one action.                   *)
(*                                                                         *)
(* Environment assumptions:                                                *)
(*  - the page supplies #prevBtn, #nextBtn, #progressBar and #slideCounter *)
(*    (the `if (this.x)` guards of the update methods are taken);          *)
(*  - the page marks slide 0, when there is one, as the only `active`      *)
(*    slide and marks no slide `prev`;                                     *)
(*  - timers with the same delay fire in the order they were scheduled;    *)
(*    the 50 ms, 600 ms, 1000 ms and 5000 ms timers are interleaved        *)
(*    freely; the auto-hide timer is timed: it carries the milliseconds    *)
(*    left, time passes in steps and never passes a due auto-hide timer;   *)
(*  - a touch gesture is one touchstart followed by one touchend; the      *)
(*    gesture's clock starts at its touchstart.                            *)
(*                                                                         *)
(* Each specification runs the whole controller against one part of the    *)
(* environment: Spec the navigation inputs and the resize event,           *)
(* ScriptSpec a scripted sequence of intents, AutoHideSpec mouse activity, *)
(* keys and the passing of time, GestureSpec touch gestures, FaultSpec a   *)
(* presenter that may throw in the 50 ms callback, UtilsSpec the console's *)
(* PresentationUtils among keys and resizes.                               *)
(***************************************************************************)
EXTENDS Integers, Sequences, FiniteSets

\* Largest number of .slide elements the page may hold.
MaxSlides == 5
\* Largest number of live-region announcements pending when the environment
\* delivers a further event.
MaxAnnounce == 1
\* Longest script of intents tried exhaustively by the scripted driver.
MaxScript == 2
\* Largest number of milliseconds that pass in one step.
TickMs == 1000

\* this.autoHideDelay
autoHideDelay == 3000

VARIABLES
    totalSlides,      \* this.totalSlides
    currentSlide,     \* this.currentSlide
    isTransitioning,  \* this.isTransitioning
    active,           \* indices i with slides[i].classList containing 'active'
    prev,             \* indices i with slides[i].classList containing 'prev'
    commitTimers,     \* pending 50 ms timers of goToSlide, with their closures
    unlockTimers,     \* number of pending 600 ms timers
    slideCounter,     \* slideCounter.textContent
    progressWidth,    \* progressBar.style.width, as a number of percent
    prevDisabled,     \* prevBtn.disabled
    nextDisabled,     \* nextBtn.disabled
    documentTitle,    \* document.title
    announcements,    \* aria-live nodes in document.body awaiting removal
    navDimmed,        \* navControls.style.opacity is '0.3' (else '1')
    hideTimers,       \* pending auto-hide timers: milliseconds left, and
                      \* whether this.inactivityTimer holds the timer's id
    touchStartX,      \* this.touchStartX
    touchStartY,      \* this.touchStartY
    errorNotices,     \* notices of the window error handler awaiting removal
    sinceActivity,    \* history: ms since the last qualifying activity (or
                      \* startup), counted up to autoHideDelay
    touching,         \* environment: a touchstart awaits its touchend
    lastTouch,        \* history: the last touchend and what it called
    reshown,          \* history: an activity has brought dimmed controls back
    lastIntent,       \* history: the last navigation intent handled
    script,           \* scripted driver: intents still to be issued
    issued,           \* scripted driver: intents issued so far
    observed,         \* scripted driver: index seen at Idle after each intent
    awaiting          \* scripted driver: an accepted intent has not settled

progVars == <<totalSlides, currentSlide, isTransitioning, active, prev,
              commitTimers, unlockTimers, slideCounter, progressWidth,
              prevDisabled, nextDisabled, documentTitle, announcements,
              navDimmed, hideTimers, touchStartX, touchStartY, errorNotices>>
driverVars == <<script, issued, observed, awaiting>>
histVars == <<sinceActivity, touching, lastTouch, reshown>>
vars == <<progVars, lastIntent, driverVars, histVars>>

-----------------------------------------------------------------------------
(* JavaScript numbers, as far as updateProgressBar needs them: a quotient   *)
(* of non-negative integers is kept exact as num/den; a positive number     *)
(* divided by zero is Infinity.                                             *)

Infinity == [num |-> 1, den |-> 0]

JSDiv(a, b) == IF b = 0 THEN Infinity ELSE [num |-> a, den |-> b]

JSMul(x, k) == IF x.den = 0 THEN Infinity ELSE [num |-> x.num * k, den |-> x.den]

IsInfinity(x) == x.den = 0

NumLE(x, y) == x.num * y.den <= y.num * x.den

NumEq(x, y) == x.num * y.den = y.num * x.den

Num(k) == [num |-> k, den |-> 1]

-----------------------------------------------------------------------------
(* The controller as one record: the fields of `this`, the DOM properties   *)
(* it writes and the timers it has scheduled.                               *)

Ctl ==
    [totalSlides     |-> totalSlides,
     currentSlide    |-> currentSlide,
     isTransitioning |-> isTransitioning,
     active          |-> active,
     prev            |-> prev,
     commitTimers    |-> commitTimers,
     unlockTimers    |-> unlockTimers,
     slideCounter    |-> slideCounter,
     progressWidth   |-> progressWidth,
     prevDisabled    |-> prevDisabled,
     nextDisabled    |-> nextDisabled,
     documentTitle   |-> documentTitle,
     announcements   |-> announcements,
     navDimmed       |-> navDimmed,
     hideTimers      |-> hideTimers,
     touchStartX     |-> touchStartX,
     touchStartY     |-> touchStartY,
     errorNotices    |-> errorNotices]

\* F applied to x, with x evaluated once (a method body reads `this` many
\* times; the record it reads is computed a single time)
With(x, F(_)) == CHOOSE r \in {F(v) : v \in {x}} : TRUE

\* this.slides[i] is an element (not undefined)
HasSlide(c, i) == i >= 0 /\ i < c.totalSlides

\* constructor, before init(): lines 5-13; the DOM as the page delivers it
Constructed(n) ==
    [totalSlides     |-> 0,
     currentSlide    |-> 0,
     isTransitioning |-> FALSE,
     active          |-> IF n > 0 THEN {0} ELSE {},
     prev            |-> {},
     commitTimers    |-> << >>,
     unlockTimers    |-> 0,
     slideCounter    |-> [n |-> 0, total |-> 0],
     progressWidth   |-> Num(0),
     prevDisabled    |-> FALSE,
     nextDisabled    |-> FALSE,
     documentTitle   |-> [n |-> 0, total |-> 0],
     announcements   |-> << >>,
     navDimmed       |-> FALSE,
     hideTimers      |-> << >>,
     touchStartX     |-> 0,
     touchStartY     |-> 0,
     errorNotices    |-> 0]

-----------------------------------------------------------------------------
(* Presenter: updateUI and its helpers.                                     *)

updateSlideCounter(this) ==
    With(this, LAMBDA c :
        [c EXCEPT !.slideCounter = [n |-> c.currentSlide + 1, total |-> c.totalSlides]])

\* Mutant of Progress: the index is not turned into a slide number
Progress_ZeroBased(cur, total) == JSMul(JSDiv(cur, total), 100)

\* The progress percentage of updateProgressBar (line 306)
Progress(cur, total) == JSMul(JSDiv(cur + 1, total), 100)

updateProgressBar(this) ==
    With(this, LAMBDA c :
        [c EXCEPT !.progressWidth = Progress(c.currentSlide, c.totalSlides)])

\* Mutant of updateNavigationButtons: `=` written for `===` in the first test
updateNavigationButtons_Assigns(this) ==
    With(this, LAMBDA c :
        [c EXCEPT !.currentSlide = 0,
                  !.prevDisabled = FALSE,
                  !.nextDisabled = (0 = c.totalSlides - 1)])

\* Mutant of updateNavigationButtons: "next" compares with the slide count
updateNavigationButtons_LastOffByOne(this) ==
    With(this, LAMBDA c :
        [c EXCEPT !.prevDisabled = (c.currentSlide = 0),
                  !.nextDisabled = (c.currentSlide = c.totalSlides)])

updateNavigationButtons(this) ==
    With(this, LAMBDA c :
        [c EXCEPT !.prevDisabled = (c.currentSlide = 0),
                  !.nextDisabled = (c.currentSlide = c.totalSlides - 1)])

\* The title is derived from slides[currentSlide]; it is kept as the slide
\* number and total the string is built from.
updateDocumentTitle(this) ==
    With(this, LAMBDA c :
        [c EXCEPT !.documentTitle = [n |-> c.currentSlide + 1, total |-> c.totalSlides]])

\* announceSlideChange -> announceToScreenReader: appends a node whose removal
\* is scheduled 1000 ms later
announceSlideChange(this) ==
    With(this, LAMBDA c :
        [c EXCEPT !.announcements =
            Append(@, [n |-> c.currentSlide + 1, total |-> c.totalSlides])])

updateUI(c) ==
    announceSlideChange(
        updateDocumentTitle(
            updateNavigationButtons(
                updateProgressBar(
                    updateSlideCounter(c)))))

\* setupElements (the slide count n is what querySelectorAll('.slide') finds)
setupElements(c, n) == updateNavigationButtons([c EXCEPT !.totalSlides = n])

\* showNavigation
showNavigation(c) == [c EXCEPT !.navDimmed = FALSE]

\* Mutant of hideNavigation: the opacity is left as it is
hideNavigation_NoDim(c) == c

\* hideNavigation
hideNavigation(c) == [c EXCEPT !.navDimmed = TRUE]

\* this.inactivityTimer = setTimeout(..., this.autoHideDelay): a new timer,
\* the only one whose id this.inactivityTimer holds
SetInactivityTimer(timers) ==
    Append([k \in DOMAIN timers |-> [timers[k] EXCEPT !.held = FALSE]],
           [left |-> autoHideDelay, held |-> TRUE])

\* clearTimeout(this.inactivityTimer)
ClearInactivityTimer(timers) == SelectSeq(timers, LAMBDA t : ~t.held)

\* setupAutoHide
setupAutoHide(this) ==
    With(showNavigation(this), LAMBDA c :
        [c EXCEPT !.hideTimers = SetInactivityTimer(@)])

\* Mutant of handleUserActivity: the pending timer is not cleared
handleUserActivity_NoClear(this) ==
    With(showNavigation(this), LAMBDA c :
        [c EXCEPT !.hideTimers = SetInactivityTimer(@)])

\* Mutant of handleUserActivity: the controls are not shown again
handleUserActivity_NoShow(this) ==
    With(this, LAMBDA c :
        [c EXCEPT !.hideTimers = SetInactivityTimer(ClearInactivityTimer(@))])

\* handleUserActivity
handleUserActivity(this) ==
    With(showNavigation(this), LAMBDA c :
        [c EXCEPT !.hideTimers = SetInactivityTimer(ClearInactivityTimer(@))])

\* init() (setupEventListeners registers the listeners the actions below fire)
init(c, n) ==
    setupAutoHide(updateProgressBar(updateSlideCounter(setupElements(c, n))))

getCurrentSlideInfo(c) == [current |-> c.currentSlide + 1, total |-> c.totalSlides]

-----------------------------------------------------------------------------
(* Navigator: goToSlide, nextSlide, previousSlide, resetPresentation.       *)

\* Mutant of Rejected: the upper range check is off by one
Rejected_UpperOffByOne(c, slideIndex) ==
    \/ c.isTransitioning
    \/ slideIndex < 0
    \/ slideIndex > c.totalSlides
    \/ slideIndex = c.currentSlide

\* Mutant of Rejected: the upper range check is missing
Rejected_NoUpperCheck(c, slideIndex) ==
    \/ c.isTransitioning
    \/ slideIndex < 0
    \/ slideIndex = c.currentSlide

\* Mutant of Rejected: the transition lock is not consulted
Rejected_NoLock(c, slideIndex) ==
    \/ slideIndex < 0
    \/ slideIndex >= c.totalSlides
    \/ slideIndex = c.currentSlide

\* The guard of goToSlide (line 241)
Rejected(c, slideIndex) ==
    \/ c.isTransitioning
    \/ slideIndex < 0
    \/ slideIndex >= c.totalSlides
    \/ slideIndex = c.currentSlide

\* Mutant of Accepted: the index is left for the timer callback to set
Accepted_IndexDeferred(c, slideIndex) ==
    LET cur  == c.currentSlide
        has  == HasSlide(c, cur)
        act1 == IF has THEN c.active \ {cur} ELSE c.active
        prv1 == IF slideIndex < cur
                THEN (IF has THEN c.prev \cup {cur} ELSE c.prev)
                ELSE (IF has THEN c.prev \ {cur} ELSE c.prev)
    IN  [c EXCEPT !.isTransitioning = TRUE,
                  !.active = act1,
                  !.prev = prv1,
                  !.commitTimers =
                      Append(@, [slideIndex |-> slideIndex,
                                 previousSlideIndex |-> cur])]

\* goToSlide past its guard, up to the scheduling of the 50 ms timer (lines
\* 245-269).  The timer's closure holds slideIndex and previousSlideIndex.
Accepted(c, slideIndex) ==
    LET cur  == c.currentSlide
        has  == HasSlide(c, cur)
        act1 == IF has THEN c.active \ {cur} ELSE c.active
        prv1 == IF slideIndex < cur
                THEN (IF has THEN c.prev \cup {cur} ELSE c.prev)
                ELSE (IF has THEN c.prev \ {cur} ELSE c.prev)
    IN  [c EXCEPT !.isTransitioning = TRUE,
                  !.active = act1,
                  !.prev = prv1,
                  !.currentSlide = slideIndex,
                  !.commitTimers =
                      Append(@, [slideIndex |-> slideIndex,
                                 previousSlideIndex |-> cur])]

goToSlide(c, slideIndex) ==
    IF Rejected(c, slideIndex) THEN c ELSE Accepted(c, slideIndex)

\* Mutant of nextSlide: the last-slide test is off by one
nextSlide_OffByOne(c) ==
    IF c.isTransitioning \/ c.currentSlide >= c.totalSlides - 2
    THEN c
    ELSE goToSlide(c, c.currentSlide + 1)

nextSlide(c) ==
    IF c.isTransitioning \/ c.currentSlide >= c.totalSlides - 1
    THEN c
    ELSE goToSlide(c, c.currentSlide + 1)

\* Mutant of previousSlide: the first-slide test is off by one
previousSlide_OffByOne(c) ==
    IF c.isTransitioning \/ c.currentSlide <= 1
    THEN c
    ELSE goToSlide(c, c.currentSlide - 1)

previousSlide(c) ==
    IF c.isTransitioning \/ c.currentSlide <= 0
    THEN c
    ELSE goToSlide(c, c.currentSlide - 1)

resetPresentation(c) == goToSlide(c, 0)

\* Mutant of commitCallback: the previous slide's `prev` class is not removed
commitCallback_KeepsPrev(this, t) ==
    With(this, LAMBDA c :
        LET cur  == c.currentSlide
            c1   == IF HasSlide(c, cur)
                    THEN [c EXCEPT !.active = @ \cup {cur}, !.prev = @ \ {cur}]
                    ELSE c
            c3   == updateUI(c1)
        IN  [c3 EXCEPT !.unlockTimers = @ + 1])

\* Mutant of commitCallback: the 600 ms timer is scheduled twice
commitCallback_TwoUnlocks(this, t) ==
    With(this, LAMBDA c :
        LET cur  == c.currentSlide
            c1   == IF HasSlide(c, cur)
                    THEN [c EXCEPT !.active = @ \cup {cur}, !.prev = @ \ {cur}]
                    ELSE c
            c2   == IF HasSlide(c1, t.previousSlideIndex)
                    THEN [c1 EXCEPT !.prev = @ \ {t.previousSlideIndex}]
                    ELSE c1
            c3   == updateUI(c2)
        IN  [c3 EXCEPT !.unlockTimers = @ + 2])

\* The callback of the 50 ms timer (lines 269-287), run with the closure t
commitCallback(this, t) ==
    With(this, LAMBDA c :
        LET cur  == c.currentSlide
            c1   == IF HasSlide(c, cur)
                    THEN [c EXCEPT !.active = @ \cup {cur}, !.prev = @ \ {cur}]
                    ELSE c
            c2   == IF HasSlide(c1, t.previousSlideIndex)
                    THEN [c1 EXCEPT !.prev = @ \ {t.previousSlideIndex}]
                    ELSE c1
            c3   == updateUI(c2)
        IN  [c3 EXCEPT !.unlockTimers = @ + 1])

\* updateUI when the call number `done + 1` of its five calls throws
updateUIThrows(this, done) ==
    With(IF done >= 1 THEN updateSlideCounter(this) ELSE this, LAMBDA c1 :
    With(IF done >= 2 THEN updateProgressBar(c1) ELSE c1, LAMBDA c2 :
    With(IF done >= 3 THEN updateNavigationButtons(c2) ELSE c2, LAMBDA c3 :
         IF done >= 4 THEN updateDocumentTitle(c3) ELSE c3)))

\* The callback of the 50 ms timer when updateUI (line 280) throws: the
\* statements after it are not run, and the window error handler (lines
\* 550-581) shows a notice that it removes 5000 ms later
commitCallbackThrows(this, t, done) ==
    With(this, LAMBDA c :
        LET cur  == c.currentSlide
            c1   == IF HasSlide(c, cur)
                    THEN [c EXCEPT !.active = @ \cup {cur}, !.prev = @ \ {cur}]
                    ELSE c
            c2   == IF HasSlide(c1, t.previousSlideIndex)
                    THEN [c1 EXCEPT !.prev = @ \ {t.previousSlideIndex}]
                    ELSE c1
            c3   == updateUIThrows(c2, done)
        IN  [c3 EXCEPT !.errorNotices = @ + 1])

\* Mutant of unlockCallback: the lock is never released
unlockCallback_KeepsLock(c) == c

\* The callback of the 600 ms timer (lines 283-285)
unlockCallback(c) == [c EXCEPT !.isTransitioning = FALSE]

\* handleResize
handleResize(c) == updateUI(c)

\* exportSlideData: the slide numbers, the total and the current slide number
exportSlideData(c) ==
    [totalSlides  |-> c.totalSlides,
     currentSlide |-> c.currentSlide + 1,
     slides       |-> [index \in 1 .. c.totalSlides |-> [number |-> index]]]

\* Mutant of PresentationUtils_goToSlide: the slide number is used as an index
PresentationUtils_goToSlide_ZeroBased(c, slideNumber) == goToSlide(c, slideNumber)

\* window.PresentationUtils.goToSlide (lines 431-433)
PresentationUtils_goToSlide(c, slideNumber) == goToSlide(c, slideNumber - 1)

\* Math.abs
Abs(x) == IF x < 0 THEN 0 - x ELSE x

\* handleTouchStart: keeps the first touch's coordinates
handleTouchStart(c, x, y) == [c EXCEPT !.touchStartX = x, !.touchStartY = y]

\* The method handleTouchEnd calls for a touch that ends at (endX, endY)
\* deltaTime ms after the touchstart: "next", "prev" or "none"
Swipe(c, endX, endY, deltaTime) ==
    LET deltaX == c.touchStartX - endX
        deltaY == c.touchStartY - endY
    IN  IF c.touchStartX = 0 \/ c.touchStartY = 0 THEN "none"
        ELSE IF deltaTime > 300 \/ Abs(deltaX) < 50 THEN "none"
        ELSE IF Abs(deltaX) > Abs(deltaY)
             THEN (IF deltaX > 0 THEN "next" ELSE "prev")
             ELSE "none"

\* handleTouchEnd: the two early returns leave the touch coordinates alone
handleTouchEnd(c, endX, endY, deltaTime) ==
    LET deltaX == c.touchStartX - endX
        called == Swipe(c, endX, endY, deltaTime)
    IN  IF c.touchStartX = 0 \/ c.touchStartY = 0 THEN c
        ELSE IF deltaTime > 300 \/ Abs(deltaX) < 50 THEN c
        ELSE With(CASE called = "next" -> nextSlide(c)
                    [] called = "prev" -> previousSlide(c)
                    [] called = "none" -> c,
                  LAMBDA d : [d EXCEPT !.touchStartX = 0, !.touchStartY = 0])

-----------------------------------------------------------------------------
(* Navigation intents, as the input adapters issue them.                    *)

GoToArgs == (0 - 1) .. MaxSlides

IntentNext == [op |-> "next", arg |-> 0]
IntentPrev == [op |-> "prev", arg |-> 0]
IntentReset == [op |-> "reset", arg |-> 0]
IntentGoTo(n) == [op |-> "goto", arg |-> n]

Intents == {IntentNext, IntentPrev, IntentReset} \cup {IntentGoTo(n) : n \in GoToArgs}

NoIntent == [op |-> "none", arg |-> 0, from |-> 0, idle |-> TRUE]

NoTouch == [startX |-> 0, startY |-> 0, endX |-> 0, endY |-> 0, deltaTime |-> 0,
            called |-> "none"]

\* The method an intent calls
Handle(c, i) ==
    CASE i.op = "next"  -> nextSlide(c)
      [] i.op = "prev"  -> previousSlide(c)
      [] i.op = "reset" -> resetPresentation(c)
      [] i.op = "goto"  -> goToSlide(c, i.arg)

\* History of an intent handled in controller state c
Recorded(c, i) ==
    [op |-> i.op, arg |-> i.arg, from |-> c.currentSlide, idle |-> ~c.isTransitioning]

\* Keys of the keydown listeners that reach the navigator
NextKeys == {"arrowright", "arrowdown", " ", "pagedown"}
PrevKeys == {"arrowleft", "arrowup", "pageup"}
Digits == <<"1", "2", "3", "4", "5", "6", "7", "8", "9">>
DigitKeys == {Digits[d] : d \in DOMAIN Digits}
Keys == NextKeys \cup PrevKeys \cup {"home", "end", "ctrl+r"} \cup DigitKeys

parseInt(key) == CHOOSE d \in DOMAIN Digits : Digits[d] = key

\* handleKeyPress (lines 81-135) and the page-level listener (lines 452-464):
\* the set of intents (none or one) a key issues in controller state c
KeyIntents(c, key) ==
    IF key \in NextKeys THEN {IntentNext}
    ELSE IF key \in PrevKeys THEN {IntentPrev}
    ELSE IF key = "home" THEN {IntentGoTo(0)}
    ELSE IF key = "end" THEN {IntentGoTo(c.totalSlides - 1)}
    ELSE IF key = "ctrl+r" THEN {IntentReset}
    ELSE IF key \in DigitKeys /\ parseInt(key) - 1 < c.totalSlides
         THEN {IntentGoTo(parseInt(key) - 1)}
    ELSE {}

-----------------------------------------------------------------------------
(* Actions.                                                                 *)

\* The controller becomes d (the record is computed once)
Apply(c) ==
    \E d \in {c} :
        /\ totalSlides' = d.totalSlides
        /\ currentSlide' = d.currentSlide
        /\ isTransitioning' = d.isTransitioning
        /\ active' = d.active
        /\ prev' = d.prev
        /\ commitTimers' = d.commitTimers
        /\ unlockTimers' = d.unlockTimers
        /\ slideCounter' = d.slideCounter
        /\ progressWidth' = d.progressWidth
        /\ prevDisabled' = d.prevDisabled
        /\ nextDisabled' = d.nextDisabled
        /\ documentTitle' = d.documentTitle
        /\ announcements' = d.announcements
        /\ navDimmed' = d.navDimmed
        /\ hideTimers' = d.hideTimers
        /\ touchStartX' = d.touchStartX
        /\ touchStartY' = d.touchStartY
        /\ errorNotices' = d.errorNotices

\* The environment delivers a further event only while fewer than MaxAnnounce
\* announcements await removal (this bounds the live-region queue).
EnvReady == Len(announcements) < MaxAnnounce

\* One intent handled by the navigator
Issue(i) ==
    /\ EnvReady
    /\ Apply(Handle(Ctl, i))
    /\ lastIntent' = Recorded(Ctl, i)
    /\ UNCHANGED <<driverVars, histVars>>

\* Direct calls of the public methods
CallNextSlide == Issue(IntentNext)

CallPreviousSlide == Issue(IntentPrev)

CallResetPresentation == Issue(IntentReset)

CallGoToSlide(n) == Issue(IntentGoTo(n))

\* A keydown event, delivered to both listeners
Keydown(key) ==
    /\ EnvReady
    /\ LET is == KeyIntents(Ctl, key)
       IN  IF is = {}
           THEN UNCHANGED <<progVars, lastIntent>>
           ELSE LET i == CHOOSE x \in is : TRUE
                IN  /\ Apply(Handle(Ctl, i))
                    /\ lastIntent' = Recorded(Ctl, i)
    /\ UNCHANGED <<driverVars, histVars>>

\* Click on #prevBtn; a disabled button dispatches no click
PrevBtnClick ==
    /\ ~prevDisabled
    /\ Issue(IntentPrev)

\* Click on #nextBtn
NextBtnClick ==
    /\ ~nextDisabled
    /\ Issue(IntentNext)

\* window resize
HandleResize ==
    /\ EnvReady
    /\ Apply(handleResize(Ctl))
    /\ UNCHANGED <<lastIntent, driverVars, histVars>>

\* The oldest 50 ms timer fires
CommitTimer ==
    /\ commitTimers # << >>
    /\ Apply(commitCallback([Ctl EXCEPT !.commitTimers = Tail(@)], Head(commitTimers)))
    /\ UNCHANGED <<lastIntent, driverVars, histVars>>

\* A 600 ms timer fires.  The scripted driver notes the index it sees at Idle.
UnlockTimer ==
    /\ unlockTimers > 0
    /\ Apply(unlockCallback([Ctl EXCEPT !.unlockTimers = @ - 1]))
    /\ IF awaiting
       THEN /\ observed' = Append(observed, currentSlide)
            /\ awaiting' = FALSE
       ELSE UNCHANGED <<observed, awaiting>>
    /\ UNCHANGED <<lastIntent, script, issued, histVars>>

\* The oldest announcement's 1000 ms timer fires and removes the node
RemoveAnnouncement ==
    /\ announcements # << >>
    /\ Apply([Ctl EXCEPT !.announcements = Tail(@)])
    /\ UNCHANGED <<lastIntent, driverVars, histVars>>

Min(a, b) == IF a <= b THEN a ELSE b

\* mousemove or click reaching the document listeners (lines 71-72)
UserActivity ==
    /\ Apply(handleUserActivity(Ctl))
    /\ sinceActivity' = 0
    /\ reshown' = (reshown \/ navDimmed)
    /\ UNCHANGED <<lastIntent, driverVars, touching, lastTouch>>

\* The time until the next auto-hide timer is due, at most ms
UntilDue(timers, ms) ==
    LET lefts == {timers[k].left : k \in DOMAIN timers} \cup {ms}
    IN  CHOOSE m \in lefts : \A l \in lefts : m <= l

\* Time passes: at most TickMs, and not beyond the next auto-hide timer
Tick ==
    /\ \A k \in DOMAIN hideTimers : hideTimers[k].left > 0
    /\ \E d \in {UntilDue(hideTimers, TickMs)} :
        /\ Apply([Ctl EXCEPT !.hideTimers =
                     [k \in DOMAIN hideTimers |->
                         [hideTimers[k] EXCEPT !.left = @ - d]]])
        /\ sinceActivity' = Min(autoHideDelay, sinceActivity + d)
    /\ UNCHANGED <<lastIntent, driverVars, touching, lastTouch, reshown>>

\* The timers of s other than the k-th
Without(s, k) == [j \in 1 .. (Len(s) - 1) |-> IF j < k THEN s[j] ELSE s[j + 1]]

\* A due auto-hide timer fires (lines 183-185, 193-195)
HideTimer ==
    /\ \E k \in DOMAIN hideTimers :
        /\ hideTimers[k].left = 0
        /\ Apply(hideNavigation([Ctl EXCEPT !.hideTimers = Without(@, k)]))
    /\ UNCHANGED <<lastIntent, driverVars, histVars>>

\* Where the modelled touches start and end, and how long they last
StartPoints == {[x |-> 100, y |-> 100], [x |-> 0, y |-> 100], [x |-> 100, y |-> 0]}

EndPoints == {[x |-> ex, y |-> ey] : ex \in {20, 50, 70, 80, 180}, ey \in {40, 95}}

Elapsed == {120, 300, 400}

\* touchstart on the document
TouchStart(p) ==
    /\ ~touching
    /\ Apply(handleTouchStart(Ctl, p.x, p.y))
    /\ touching' = TRUE
    /\ UNCHANGED <<lastIntent, driverVars, sinceActivity, lastTouch, reshown>>

\* touchend on the document, deltaTime ms after the touchstart
TouchEnd(p, deltaTime) ==
    /\ touching
    /\ EnvReady
    /\ \E called \in {Swipe(Ctl, p.x, p.y, deltaTime)} :
        /\ Apply(handleTouchEnd(Ctl, p.x, p.y, deltaTime))
        /\ lastTouch' = [startX |-> touchStartX, startY |-> touchStartY,
                         endX |-> p.x, endY |-> p.y, deltaTime |-> deltaTime,
                         called |-> called]
        /\ lastIntent' = CASE called = "next" -> Recorded(Ctl, IntentNext)
                           [] called = "prev" -> Recorded(Ctl, IntentPrev)
                           [] called = "none" -> lastIntent
    /\ touching' = FALSE
    /\ UNCHANGED <<driverVars, sinceActivity, reshown>>

\* The oldest 50 ms timer fires and updateUI throws in one of its five calls
CommitTimerFault ==
    /\ commitTimers # << >>
    /\ \E done \in 0 .. 4 :
        Apply(commitCallbackThrows([Ctl EXCEPT !.commitTimers = Tail(@)],
                                   Head(commitTimers), done))
    /\ UNCHANGED <<lastIntent, driverVars, histVars>>

\* The 5000 ms timer of an error notice fires and removes it
RemoveErrorNotice ==
    /\ errorNotices > 0
    /\ Apply([Ctl EXCEPT !.errorNotices = @ - 1])
    /\ UNCHANGED <<lastIntent, driverVars, histVars>>

\* Slide numbers passed to PresentationUtils.goToSlide
SlideNumbers == 0 .. (MaxSlides + 1)

\* A call of PresentationUtils.goToSlide from the console
UtilsGoToSlide(slideNumber) ==
    /\ EnvReady
    /\ Apply(PresentationUtils_goToSlide(Ctl, slideNumber))
    /\ lastIntent' = Recorded(Ctl, [op |-> "utils", arg |-> slideNumber])
    /\ UNCHANGED <<driverVars, histVars>>

\* Scripted driver: issues the next intent of the script once the navigator is
\* Idle and the previous intent has settled
ScriptStep ==
    /\ script # << >>
    /\ ~isTransitioning
    /\ ~awaiting
    /\ LET i == Head(script)
           c == Handle(Ctl, i)
       IN  /\ Apply(c)
           /\ lastIntent' = Recorded(Ctl, i)
           /\ script' = Tail(script)
           /\ issued' = Append(issued, i)
           /\ IF c.isTransitioning
              THEN /\ awaiting' = TRUE
                   /\ observed' = observed
              ELSE /\ awaiting' = FALSE
                   /\ observed' = Append(observed, c.currentSlide)
    /\ UNCHANGED histVars

-----------------------------------------------------------------------------
(* Specifications.                                                          *)

\* State after `new PresentationController()` on a page with n slides
Constructor(n) ==
    LET c == init(Constructed(n), n)
    IN  /\ totalSlides = c.totalSlides
        /\ currentSlide = c.currentSlide
        /\ isTransitioning = c.isTransitioning
        /\ active = c.active
        /\ prev = c.prev
        /\ commitTimers = c.commitTimers
        /\ unlockTimers = c.unlockTimers
        /\ slideCounter = c.slideCounter
        /\ progressWidth = c.progressWidth
        /\ prevDisabled = c.prevDisabled
        /\ nextDisabled = c.nextDisabled
        /\ documentTitle = c.documentTitle
        /\ announcements = c.announcements
        /\ navDimmed = c.navDimmed
        /\ hideTimers = c.hideTimers
        /\ touchStartX = c.touchStartX
        /\ touchStartY = c.touchStartY
        /\ errorNotices = c.errorNotices
        /\ lastIntent = NoIntent
        /\ sinceActivity = 0
        /\ touching = FALSE
        /\ lastTouch = NoTouch
        /\ reshown = FALSE

Init ==
    /\ \E n \in 0 .. MaxSlides : Constructor(n)
    /\ script = << >>
    /\ issued = << >>
    /\ observed = << >>
    /\ awaiting = FALSE

Next ==
    \/ CallNextSlide
    \/ CallPreviousSlide
    \/ CallResetPresentation
    \/ \E n \in GoToArgs : CallGoToSlide(n)
    \/ \E key \in Keys : Keydown(key)
    \/ PrevBtnClick
    \/ NextBtnClick
    \/ HandleResize
    \/ CommitTimer
    \/ UnlockTimer
    \/ RemoveAnnouncement

Spec == Init /\ [][Next]_vars

\* Scheduled timers eventually fire
FairSpec ==
    /\ Spec
    /\ WF_vars(CommitTimer)
    /\ WF_vars(UnlockTimer)
    /\ WF_vars(RemoveAnnouncement)

\* The scenario of the specification's section 8
Scenario == <<IntentNext, IntentNext, IntentPrev, IntentGoTo(4), IntentNext>>

Scripts ==
    UNION {[1 .. k -> Intents] : k \in 0 .. MaxScript} \cup {Scenario}

ScriptInit ==
    /\ \E n \in 0 .. MaxSlides : Constructor(n)
    /\ script \in Scripts
    /\ issued = << >>
    /\ observed = << >>
    /\ awaiting = FALSE

ScriptNext ==
    \/ ScriptStep
    \/ HandleResize
    \/ CommitTimer
    \/ UnlockTimer
    \/ RemoveAnnouncement

ScriptSpec == ScriptInit /\ [][ScriptNext]_vars

\* Mouse activity, keys and button clicks while time passes
AutoHideNext ==
    \/ UserActivity
    \/ Tick
    \/ HideTimer
    \/ \E key \in Keys : Keydown(key)
    \/ PrevBtnClick
    \/ NextBtnClick
    \/ CommitTimer
    \/ UnlockTimer
    \/ RemoveAnnouncement

AutoHideSpec == Init /\ [][AutoHideNext]_vars

\* Touch gestures
GestureNext ==
    \/ \E p \in StartPoints : TouchStart(p)
    \/ \E p \in EndPoints, deltaTime \in Elapsed : TouchEnd(p, deltaTime)
    \/ CommitTimer
    \/ UnlockTimer
    \/ RemoveAnnouncement

GestureSpec == Init /\ [][GestureNext]_vars

\* The navigation inputs with a presenter that may throw in the 50 ms callback
FaultNext ==
    \/ Next
    \/ CommitTimerFault
    \/ RemoveErrorNotice

FaultSpec == Init /\ [][FaultNext]_vars

\* Scheduled timers eventually fire, whether or not their callback throws
FaultFairSpec ==
    /\ FaultSpec
    /\ WF_vars(CommitTimer \/ CommitTimerFault)
    /\ WF_vars(UnlockTimer)
    /\ WF_vars(RemoveAnnouncement)
    /\ WF_vars(RemoveErrorNotice)

\* The console's PresentationUtils among keys, resizes and the timers
UtilsNext ==
    \/ \E slideNumber \in SlideNumbers : UtilsGoToSlide(slideNumber)
    \/ \E key \in Keys : Keydown(key)
    \/ HandleResize
    \/ CommitTimer
    \/ UnlockTimer
    \/ RemoveAnnouncement

UtilsSpec == Init /\ [][UtilsNext]_vars

\* Scheduled timers eventually fire
UtilsFairSpec ==
    /\ UtilsSpec
    /\ WF_vars(CommitTimer)
    /\ WF_vars(UnlockTimer)
    /\ WF_vars(RemoveAnnouncement)

-----------------------------------------------------------------------------
(* Properties.                                                              *)

Idle == ~isTransitioning

Settled == Idle /\ commitTimers = << >> /\ unlockTimers = 0

ValidIndex(n) == n >= 0 /\ n < totalSlides

\* C1: with at least one slide, the current index is always a valid index:
\* 0 <= currentSlide < totalSlides, whatever intents and timer firings occur.
C1_IndexInRange ==
    totalSlides >= 1 => (0 <= currentSlide /\ currentSlide < totalSlides)

\* C1 witness: at the last slide, Idle, a goToSlide beyond the range was just
\* handled (and refused).
C1_Witness ==
    /\ totalSlides >= 2
    /\ currentSlide = totalSlides - 1
    /\ Idle
    /\ lastIntent.op = "goto"
    /\ lastIntent.idle
    /\ lastIntent.arg >= totalSlides

\* The last intent handled was a goToSlide(t) issued at Idle with t a valid
\* index other than the index of that moment
GoToIssued(t) ==
    /\ lastIntent.op = "goto"
    /\ lastIntent.idle
    /\ lastIntent.arg = t
    /\ ValidIndex(t)
    /\ lastIntent.from # t

\* C2: a goToSlide(t) issued at Idle with a valid t other than the current
\* index leads, timers firing eventually, to a state with currentSlide = t and
\* the navigator Idle again, whatever intents arrive in between.
C2_GoToEventuallySettles ==
    \A t \in 0 .. (MaxSlides - 1) :
        (GoToIssued(t) /\ isTransitioning) ~> (currentSlide = t /\ Idle)

\* C2 witness: such a goToSlide has settled on its target.
C2_Witness ==
    /\ \E t \in 0 .. (MaxSlides - 1) : GoToIssued(t) /\ currentSlide = t
    /\ Settled
    /\ documentTitle.n = currentSlide + 1

\* A step in which an input adapter hands an intent to the navigator
IntentStep ==
    \/ \E i \in Intents : Issue(i)
    \/ \E key \in Keys : KeyIntents(Ctl, key) # {} /\ Keydown(key)
    \/ PrevBtnClick
    \/ NextBtnClick

\* C3: an intent handled while isTransitioning changes nothing of the
\* controller (index, slide count, lock, timers, presentation), and once an
\* intent was dropped the index is still the one of the moment it was issued:
\* it is not taken up later.
C3_DroppedWhileTransitioning ==
    [][/\ (isTransitioning /\ IntentStep) => UNCHANGED progVars
       /\ ~lastIntent'.idle => currentSlide' = lastIntent'.from]_vars

\* C3 witness: back at Idle after an otherwise valid goToSlide was dropped
\* during the transition; the index is not the dropped target.
C3_Witness ==
    /\ Settled
    /\ lastIntent.op = "goto"
    /\ ~lastIntent.idle
    /\ ValidIndex(lastIntent.arg)
    /\ lastIntent.arg # currentSlide

\* C4 as claimed: between acceptance and the commit step the current index
\* is still the old one (previousSlideIndex).
C4_IndexKeptUntilCommit ==
    \A k \in DOMAIN commitTimers :
        currentSlide = commitTimers[k].previousSlideIndex

\* C4 amended: the current index is set to the target at acceptance, so while
\* the commit timer is pending currentSlide is the target, differs from
\* previousSlideIndex, and getCurrentSlideInfo reports the target's number;
\* the commit step does not change the index.
C4_IndexSetAtAcceptance ==
    [][/\ \A k \in DOMAIN commitTimers' :
            /\ currentSlide' = commitTimers'[k].slideIndex
            /\ currentSlide' # commitTimers'[k].previousSlideIndex
            /\ getCurrentSlideInfo(Ctl').current = commitTimers'[k].slideIndex + 1
       /\ CommitTimer => currentSlide' = currentSlide]_vars

\* C4 witness: a commit is pending, the index is already the target while the
\* counter still shows the previous slide.
C4_Witness ==
    /\ Len(commitTimers) = 1
    /\ currentSlide = commitTimers[1].slideIndex
    /\ slideCounter.n = commitTimers[1].previousSlideIndex + 1
    /\ getCurrentSlideInfo(Ctl).current = commitTimers[1].slideIndex + 1

\* C5: in every reachable state nextSlide acts as goToSlide(currentSlide + 1),
\* previousSlide as goToSlide(currentSlide - 1) and resetPresentation as
\* goToSlide(0), on the whole controller (index, lock, timers, presentation);
\* nextSlide at the last index and previousSlide at index 0 change nothing.
C5_IntentsAreGoTo ==
    /\ nextSlide(Ctl) = goToSlide(Ctl, currentSlide + 1)
    /\ previousSlide(Ctl) = goToSlide(Ctl, currentSlide - 1)
    /\ resetPresentation(Ctl) = goToSlide(Ctl, 0)
    /\ currentSlide = totalSlides - 1 => nextSlide(Ctl) = Ctl
    /\ currentSlide = 0 => previousSlide(Ctl) = Ctl

\* C5 witness: nextSlide was handled at Idle at the last index and the
\* navigator is still Idle there; previousSlide would move.
C5_Witness ==
    /\ totalSlides >= 2
    /\ lastIntent.op = "next"
    /\ lastIntent.idle
    /\ lastIntent.from = totalSlides - 1
    /\ currentSlide = totalSlides - 1
    /\ Settled
    /\ previousSlide(Ctl) # Ctl

\* The index an intent asks for, from index cur
Target(cur, i) ==
    CASE i.op = "next"  -> cur + 1
      [] i.op = "prev"  -> cur - 1
      [] i.op = "reset" -> 0
      [] i.op = "goto"  -> i.arg

\* The index expected at the next Idle: the target when it is a valid index
\* other than cur, else cur
ExpectedIndex(cur, i) ==
    IF ValidIndex(Target(cur, i)) /\ Target(cur, i) # cur
    THEN Target(cur, i)
    ELSE cur

RECURSIVE ExpectedFrom(_, _)
ExpectedFrom(cur, is) ==
    IF is = << >>
    THEN << >>
    ELSE LET nxt == ExpectedIndex(cur, Head(is))
         IN  <<nxt>> \o ExpectedFrom(nxt, Tail(is))

\* C6: when every intent is issued at Idle, the indices seen at the following
\* Idle states are the expected ones (the target when valid and different,
\* else the unchanged index); with 5 slides the scenario Next, Next, Previous,
\* GoTo(4), Next is seen as 1, 2, 1, 4, 4.
C6_ObservedAtIdle ==
    LET exp == ExpectedFrom(0, issued)
    IN  /\ observed = IF awaiting THEN SubSeq(exp, 1, Len(exp) - 1) ELSE exp
        /\ (totalSlides = 5 /\ issued = Scenario /\ ~awaiting)
               => observed = <<1, 2, 1, 4, 4>>

\* C6 witness: the scenario has run to its end on 5 slides.
C6_Witness ==
    /\ totalSlides = 5
    /\ issued = Scenario
    /\ script = << >>
    /\ Settled
    /\ observed = <<1, 2, 1, 4, 4>>

\* C7: in every Idle state the counter shows currentSlide + 1 over
\* totalSlides, "previous" is disabled exactly at index 0 and "next" exactly
\* at index totalSlides - 1.
C7_ProjectionsMatchAtIdle ==
    Idle =>
        /\ slideCounter = [n |-> currentSlide + 1, total |-> totalSlides]
        /\ prevDisabled <=> (currentSlide = 0)
        /\ nextDisabled <=> (currentSlide = totalSlides - 1)

\* C7 witness: a transition to the last slide has settled.
C7_Witness ==
    /\ totalSlides >= 2
    /\ Settled
    /\ lastIntent.op # "none"
    /\ lastIntent.idle
    /\ lastIntent.from # currentSlide
    /\ currentSlide = totalSlides - 1
    /\ nextDisabled
    /\ ~prevDisabled
    /\ slideCounter = [n |-> totalSlides, total |-> totalSlides]

\* C8: with at least one slide the progress percentage is non-decreasing in
\* the index, is 100 exactly at the last index, and the width the presenter
\* has applied is the percentage of the slide the counter shows.
C8_ProgressMonotoneAndFull ==
    totalSlides >= 1 =>
        /\ \A i, j \in 0 .. (totalSlides - 1) :
               i <= j => NumLE(Progress(i, totalSlides), Progress(j, totalSlides))
        /\ \A i \in 0 .. (totalSlides - 1) :
               NumEq(Progress(i, totalSlides), Num(100)) <=> (i = totalSlides - 1)
        /\ progressWidth = Progress(slideCounter.n - 1, totalSlides)
        /\ NumEq(progressWidth, Num(100)) <=> (slideCounter.n = totalSlides)

\* C8 witness: the presenter has applied 100 percent on reaching the last
\* slide, coming from a slide with less.
C8_Witness ==
    /\ totalSlides >= 3
    /\ Settled
    /\ currentSlide = totalSlides - 1
    /\ lastIntent.idle
    /\ lastIntent.from < currentSlide
    /\ NumEq(progressWidth, Num(100))
    /\ ~NumEq(Progress(lastIntent.from, totalSlides), Num(100))

\* C9: without slides every intent is a no-op: the index stays 0, the lock
\* stays open, no timer is ever scheduled, and no intent or key changes the
\* controller.
C9_EmptyDeckNoOp ==
    totalSlides = 0 =>
        /\ currentSlide = 0
        /\ ~isTransitioning
        /\ commitTimers = << >>
        /\ unlockTimers = 0
        /\ \A i \in Intents : Handle(Ctl, i) = Ctl
        /\ \A key \in Keys : \A i \in KeyIntents(Ctl, key) : Handle(Ctl, i) = Ctl

\* C9 witness: without slides, goToSlide(totalSlides - 1), the End key's
\* intent, was handled.
C9_Witness ==
    /\ totalSlides = 0
    /\ lastIntent.op = "goto"
    /\ lastIntent.arg = totalSlides - 1
    /\ currentSlide = 0
    /\ Settled

\* C10 as claimed: without slides the progress applied is 0 or left unset,
\* never the result of dividing by totalSlides = 0.
C10_ProgressGuardedWhenEmpty ==
    totalSlides = 0 => (~IsInfinity(progressWidth) /\ NumEq(progressWidth, Num(0)))

\* Some pending auto-hide timer has ms milliseconds left in timers
Pending(timers, ms) == \E k \in DOMAIN timers : timers[k].left = ms

\* C11: the controls are dimmed only when a full inactivity window has passed
\* since the last qualifying activity (or startup); when the window has
\* passed and they are not yet dimmed, the dimming is due before any more
\* time passes; a qualifying activity makes them visible at once and starts a
\* full countdown.
C11_AutoHide ==
    [][/\ navDimmed' => sinceActivity' >= autoHideDelay
       /\ (sinceActivity' >= autoHideDelay /\ ~navDimmed') => Pending(hideTimers', 0)
       /\ UserActivity =>
            /\ ~navDimmed'
            /\ sinceActivity' = 0
            /\ Pending(hideTimers', autoHideDelay)]_vars

\* C11 witness: the controls are dimmed a second time, after an activity had
\* brought them back.
C11_Witness ==
    /\ navDimmed
    /\ reshown
    /\ sinceActivity = autoHideDelay
    /\ hideTimers = << >>

\* C12 as claimed: every navigation intent makes the controls visible and
\* starts a full auto-hide countdown.
C12_IntentsCountAsActivity ==
    [][IntentStep => (~navDimmed' /\ Pending(hideTimers', autoHideDelay))]_vars

\* C17: at most one auto-hide timer is pending, it is the one
\* this.inactivityTimer holds, and it was started at the most recent
\* qualifying activity (it has autoHideDelay minus the time since then left).
C17_LatestTimerWins ==
    /\ Len(hideTimers) <= 1
    /\ \A k \in DOMAIN hideTimers :
        /\ hideTimers[k].held
        /\ hideTimers[k].left = autoHideDelay - sinceActivity

\* C17 witness: the countdown restarted by an activity that brought the
\* controls back is part-way through.
C17_Witness ==
    /\ reshown
    /\ ~navDimmed
    /\ Len(hideTimers) = 1
    /\ hideTimers[1].left > 0
    /\ hideTimers[1].left < autoHideDelay

\* Deltas of the last completed touch pair
LastDeltaX == lastTouch.startX - lastTouch.endX

LastDeltaY == lastTouch.startY - lastTouch.endY

\* C13: a touch pair issues an intent only if its elapsed time is strictly
\* below 300 ms, |deltaX| strictly exceeds 50 and |deltaX| strictly exceeds
\* |deltaY|; the intent is Next for a positive deltaX and Previous for a
\* negative one.
C13_SwipeThresholds ==
    lastTouch.called # "none" =>
        /\ lastTouch.deltaTime < 300
        /\ Abs(LastDeltaX) > 50
        /\ Abs(LastDeltaX) > Abs(LastDeltaY)
        /\ LastDeltaX > 0 => lastTouch.called = "next"
        /\ LastDeltaX < 0 => lastTouch.called = "prev"

\* C14: whatever the start and end positions, a touch pair with elapsed time
\* below 300 ms, |deltaX| above 50 and |deltaX| above |deltaY| issues an
\* intent, Next when deltaX is positive.
C14_QualifyingSwipeNavigates ==
    (/\ lastTouch.deltaTime < 300
     /\ Abs(LastDeltaX) > 50
     /\ Abs(LastDeltaX) > Abs(LastDeltaY))
        => /\ lastTouch.called # "none"
           /\ LastDeltaX > 0 => lastTouch.called = "next"

\* C15: even when the presentation update of a commit step throws, the
\* navigator eventually returns to Idle (and so accepts later valid intents).
C15_FaultDoesNotFreeze == isTransitioning ~> Idle

\* The navigation state of a controller
NavigationState(c) == <<c.currentSlide, c.totalSlides, c.isTransitioning>>

\* C16: the presenter never changes the navigation state: updateUI applied
\* in any reachable state leaves currentSlide, totalSlides and isTransitioning
\* as they are, and so do the steps that run it (the commit step and the
\* resize handler).
C16_PresenterKeepsNavigationState ==
    [][/\ NavigationState(updateUI(Ctl)) = NavigationState(Ctl)
       /\ (HandleResize \/ CommitTimer) =>
              UNCHANGED <<currentSlide, totalSlides, isTransitioning>>]_vars

\* C16 witness: a resize was handled between acceptance and commit, away
\* from slide 0: its announcement names the new index while the commit is
\* still pending.
C16_Witness ==
    /\ isTransitioning
    /\ commitTimers # << >>
    /\ currentSlide > 0
    /\ announcements # << >>
    /\ announcements[1].n = currentSlide + 1

\* Timers of transitions in flight
InFlight == Len(commitTimers) + unlockTimers

\* An intent is accepted in this step
AcceptStep == IntentStep /\ Len(commitTimers') > Len(commitTimers)

\* C18: isTransitioning holds exactly when one commit timer or one unlock
\* timer is pending, never both and never two; an acceptance happens at Idle
\* with nothing in flight and schedules one commit; the commit step schedules
\* one unlock; the unlock step returns to Idle with nothing in flight.
C18_NoOverlap ==
    [][/\ isTransitioning <=> InFlight = 1
       /\ isTransitioning' <=> InFlight' = 1
       /\ InFlight' <= 1
       /\ AcceptStep => /\ Idle /\ InFlight = 0
                        /\ Len(commitTimers') = 1 /\ unlockTimers' = 0
       /\ CommitTimer => /\ commitTimers' = << >> /\ unlockTimers' = 1
                         /\ isTransitioning'
       /\ UnlockTimer => /\ commitTimers = << >> /\ InFlight' = 0
                         /\ Idle']_vars

\* C18 witness: an intent was issued while the unlock timer of an accepted
\* transition was pending, and was not accepted.
C18_Witness ==
    /\ isTransitioning
    /\ unlockTimers = 1
    /\ commitTimers = << >>
    /\ ~lastIntent.idle
    /\ lastIntent.op # "none"

\* C19: an announcement is emitted by the commit step of an accepted
\* goToSlide, once, and by nothing else: no rejected intent and no resize
\* emits one.
C19_AnnouncedOnlyAtCommit ==
    [][/\ CommitTimer => Len(announcements') = Len(announcements) + 1
       /\ Len(announcements') > Len(announcements) => CommitTimer]_vars

\* C20: at most one slide is active; whenever no commit is pending on a
\* non-empty deck, the only active slide is slides[currentSlide] and no
\* slide is marked prev.
C20_OneActiveSlide ==
    /\ Cardinality(active) <= 1
    /\ (commitTimers = << >> /\ totalSlides > 0) =>
           /\ active = {currentSlide}
           /\ prev = {}

\* C20 witness: a backward transition has settled.
C20_Witness ==
    /\ Settled
    /\ lastIntent.idle
    /\ lastIntent.op \in {"prev", "goto", "reset"}
    /\ lastIntent.from > currentSlide
    /\ active = {currentSlide}
    /\ prev = {}

\* PresentationUtils.goToSlide(n) was the last intent, issued at Idle with a
\* slide number of the deck other than the current one
UtilsIssued(n) ==
    /\ lastIntent.op = "utils"
    /\ lastIntent.arg = n
    /\ lastIntent.idle
    /\ n >= 1
    /\ n <= totalSlides
    /\ n # lastIntent.from + 1

\* Both read-outs of the direct-access surface give slide number n
ReadsBack(n) ==
    /\ getCurrentSlideInfo(Ctl).current = n
    /\ exportSlideData(Ctl).currentSlide = n

\* C21: the direct-access surface is 1-based and round-trips: in every state
\* PresentationUtils.goToSlide(getCurrentSlideInfo().current) changes
\* nothing; after PresentationUtils.goToSlide(n) issued at Idle with
\* 1 <= n <= totalSlides, n not the current number, both read-outs give n
\* until the next intent, and an Idle state with both read-outs n follows.
C21_DirectAccessRoundTrips ==
    /\ [](PresentationUtils_goToSlide(Ctl, getCurrentSlideInfo(Ctl).current) = Ctl)
    /\ [](\A n \in SlideNumbers : UtilsIssued(n) => ReadsBack(n))
    /\ \A n \in SlideNumbers : UtilsIssued(n) ~> (Idle /\ ReadsBack(n))

\* C21 witness: PresentationUtils.goToSlide(n) issued at Idle has settled on
\* slide number n, reached backwards from a later slide.
C21_Witness ==
    /\ Settled
    /\ UtilsIssued(currentSlide + 1)
    /\ lastIntent.from > currentSlide
    /\ currentSlide > 0

====
